---- MODULE Spec2Model ----
(***************************************************************************)
(* A model of openff.bespokefit's ForceFieldEditor (forcefield_tools.py)   *)
(* and WorkflowStage (collection_workflows.py).                            *)
(*                                                                         *)
(* The force field is a function from parameter-handler name to the        *)
(* handler's ordered parameter list.  A handler record carries the smirks  *)
(* key, the id, one value field and the cosmetic "parameterize" field.     *)
(* Smirks patterns and values are opaque: the code only copies and         *)
(* compares them, so patterns are the numbers 1..NumSmirks.                *)
(* An id such as "b4" is the pair <<"b", 4>>: the prefix is a letter and   *)
(* str() of a natural number is injective, so pairs are equal exactly when *)
(* the strings are.                                                        *)
(***************************************************************************)
EXTENDS Integers, Sequences, FiniteSets, TLC

(* ------------------------------ bounds --------------------------------- *)
\* smirks patterns are the opaque keys 1..NumSmirks
NumSmirks == 3
\* longest input list handed to add_smirks / update_smirks_parameters
MaxLen == 2
\* the loaded force field holds 0..MaxInit parameters per handler
MaxInit == 1
\* number of add_smirks calls explored
MaxCalls == 2
\* atom tuples of each arity in the labelled molecule
NumTuples == 2

Absent == "absent"

(* --------------------------- program tables ---------------------------- *)
\* SmirksType values, the handler names
SmirksType == {"Bonds", "Angles", "ProperTorsions", "Vdw"}

_smirks_ids == [Bonds |-> "b", Angles |-> "a", ProperTorsions |-> "t", Vdw |-> "n"]

\* forcefield: handler name -> parameter list;  calls: add_smirks calls made;
\* call: the last call and its arguments;  ret: what that call returned or
\* raised;  stage: a WorkflowStage
VARIABLES forcefield, calls, call, ret, stage

vars == <<forcefield, calls, call, ret, stage>>

(* ------------------------- schema smirks objects ----------------------- *)
\* a schema parameter (AtomSmirks, BondSmirks, AngleSmirks, TorsionSmirks)
Smirk(type, smirks, value, atoms) ==
    [type |-> type, smirks |-> smirks, value |-> value, atoms |-> atoms]

\* equality of schema parameters: same type and same smirks pattern
SmirkEq(a, b) == a.type = b.type /\ a.smirks = b.smirks

\* "smirk in list"
SmirkIn(smirk, list) == \E j \in 1..Len(list) : SmirkEq(list[j], smirk)

\* the serialised form handed to the handler's parameter type
to_off_smirks(parameter) ==
    [smirks |-> parameter.smirks, value |-> parameter.value, parameterize |-> "value"]

\* del d[key]
DelKey(d, key) == [k \in (DOMAIN d) \ {key} |-> d[k]]

\* d[key] = v
SetKey(d, key, v) == [k \in (DOMAIN d) \cup {key} |-> IF k = key THEN v ELSE d[k]]

\* ParameterType(**smirk_data): every field of the record comes from the data,
\* a cosmetic attribute that is not handed over is not on the record
ParameterType(smirk_data) ==
    [smirks |-> smirk_data.smirks,
     id |-> smirk_data.id,
     value |-> smirk_data.value,
     parameterize |-> IF "parameterize" \in DOMAIN smirk_data
                      THEN smirk_data.parameterize ELSE Absent]

(* ------------------------------ add_smirks ----------------------------- *)
\* ParameterList lookup by smirks: the index of the first record with that
\* key, 0 when the lookup raises
IndexOf(current_params, smirks) ==
    IF \E j \in 1..Len(current_params) : current_params[j].smirks = smirks
    THEN CHOOSE j \in 1..Len(current_params) :
            /\ current_params[j].smirks = smirks
            /\ \A h \in 1..(j - 1) : current_params[h].smirks # smirks
    ELSE 0

\* a first loop that keeps every parameter, duplicates too
CollectOne_KeepDuplicates(unique, smirk) == Append(unique, smirk)

\* the body of the first loop for one input parameter: unique is
\* new_params[smirk.type.value], empty when the type is not yet a key
CollectOne(unique, smirk) ==
    IF unique = <<>> THEN <<smirk>>
    ELSE IF ~SmirkIn(smirk, unique) THEN Append(unique, smirk)
    ELSE unique

\* the first loop: new_params[type], the input's parameters of the type
\* without later duplicates, <<>> when the type is no key of new_params
RECURSIVE NewParamsOf(_, _)
NewParamsOf(smirks, type) ==
    IF smirks = <<>> THEN <<>>
    ELSE LET front == NewParamsOf(SubSeq(smirks, 1, Len(smirks) - 1), type)
             smirk == smirks[Len(smirks)]
         IN  IF smirk.type # type THEN front ELSE CollectOne(front, smirk)

\* a loop body without the lookup: every parameter is appended
AddOne_AlwaysAppend(current_params, no_params, smirk_type, parameter, i, parameterize) ==
    LET data0 == to_off_smirks(parameter)
        smirk_data == IF ~parameterize THEN DelKey(data0, "parameterize") ELSE data0
    IN  Append(current_params,
               ParameterType(SetKey(smirk_data, "id",
                                    <<_smirks_ids[smirk_type], no_params + i>>)))

\* a loop body that gives a found record a new sequential id
AddOne_FreshId(current_params, no_params, smirk_type, parameter, i, parameterize) ==
    LET data0 == to_off_smirks(parameter)
        smirk_data == SetKey(IF ~parameterize THEN DelKey(data0, "parameterize") ELSE data0,
                             "id", <<_smirks_ids[smirk_type], no_params + i>>)
        at == IndexOf(current_params, parameter.smirks)
    IN  IF at # 0
        THEN [current_params EXCEPT ![at] = ParameterType(smirk_data)]
        ELSE Append(current_params, ParameterType(smirk_data))

\* one pass of the inner loop body, for the parameter at enumerate index i
AddOne(current_params, no_params, smirk_type, parameter, i, parameterize) ==
    LET data0 == to_off_smirks(parameter)
        smirk_data == IF ~parameterize THEN DelKey(data0, "parameterize") ELSE data0
        at == IndexOf(current_params, parameter.smirks)
    IN  IF at # 0
        THEN [current_params EXCEPT
                ![at] = ParameterType(SetKey(smirk_data, "id", current_params[at].id))]
        ELSE Append(current_params,
                    ParameterType(SetKey(smirk_data, "id",
                                         <<_smirks_ids[smirk_type], no_params + i>>)))

\* the inner loop over enumerate(parameters, start=2), the first n parameters done
RECURSIVE AddLoop(_, _, _, _, _, _)
AddLoop(current_params, no_params, smirk_type, parameters, n, parameterize) ==
    IF n = 0 THEN current_params
    ELSE AddOne(AddLoop(current_params, no_params, smirk_type, parameters, n - 1,
                        parameterize),
                no_params, smirk_type, parameters[n], n + 1, parameterize)

\* the handler of smirk_type after add_smirks; no_params is read once, before
\* the loop
AddToHandler(current_params, smirk_type, parameters, parameterize) ==
    AddLoop(current_params, Len(current_params), smirk_type, parameters,
            Len(parameters), parameterize)

\* an add_smirks that hands the whole input to every handler
add_smirks_Ungrouped(ff, smirks, parameterize) ==
    [t \in SmirksType |->
        IF smirks = <<>> THEN ff[t] ELSE AddToHandler(ff[t], t, smirks, parameterize)]

\* add_smirks: handlers are independent of one another, so the order in which
\* new_params.items() yields the types does not matter
add_smirks(ff, smirks, parameterize) ==
    [t \in SmirksType |->
        LET parameters == NewParamsOf(smirks, t)
        IN  IF parameters = <<>> THEN ff[t]
            ELSE AddToHandler(ff[t], t, parameters, parameterize)]

(* ------------------------ get_smirks_parameters ------------------------ *)
\* arity of an atom tuple -> SmirksType value
_atoms_to_params == <<"Vdw", "Bonds", "Angles", "ProperTorsions">>

\* smirks_from_off: the schema parameter of a handler record, no atoms yet
smirks_from_off(off_smirks, type) == Smirk(type, off_smirks.smirks, off_smirks.value, {})

\* list.index(smirk): the first equal entry
SmirkIndex(list, smirk) == CHOOSE j \in 1..Len(list) :
    /\ SmirkEq(list[j], smirk)
    /\ \A h \in 1..(j - 1) : ~SmirkEq(list[h], smirk)

\* labels[type][atom_ids]: the governing record; labels maps an atom tuple to
\* the position of that record in the handler of the tuple's type
Governing(ff, labels, type, atom_ids) == ff[type][labels[atom_ids]]

\* a loop body that never merges into an entry of the list
ClusterOne_NoMerge(ff, labels, smirks, atom_ids) ==
    LET smirk_class == _atoms_to_params[Len(atom_ids)]
        smirk0 == smirks_from_off(Governing(ff, labels, smirk_class, atom_ids), smirk_class)
    IN  Append(smirks, [smirk0 EXCEPT !.atoms = @ \cup {atom_ids}])

\* the loop body of get_smirks_parameters for one atom tuple
ClusterOne(ff, labels, smirks, atom_ids) ==
    LET smirk_class == _atoms_to_params[Len(atom_ids)]
        off_param == Governing(ff, labels, smirk_class, atom_ids)
        smirk0 == smirks_from_off(off_param, smirk_class)
        smirk == [smirk0 EXCEPT !.atoms = @ \cup {atom_ids}]
    IN  IF ~SmirkIn(smirk, smirks) THEN Append(smirks, smirk)
        ELSE LET index == SmirkIndex(smirks, smirk)
             IN  [smirks EXCEPT ![index].atoms = @ \cup {atom_ids}]

\* get_smirks_parameters after the first n requested tuples: the list built so
\* far, and "KeyError" once a tuple's length is no key of _atoms_to_params
RECURSIVE get_smirks_parameters(_, _, _, _)
get_smirks_parameters(ff, labels, atoms, n) ==
    IF n = 0 THEN [smirks |-> <<>>, raised |-> "None"]
    ELSE LET sofar == get_smirks_parameters(ff, labels, atoms, n - 1)
         IN  IF sofar.raised # "None" THEN sofar
             ELSE IF Len(atoms[n]) \notin DOMAIN _atoms_to_params
                  THEN [sofar EXCEPT !.raised = "KeyError"]
             ELSE [sofar EXCEPT !.smirks = ClusterOne(ff, labels, @, atoms[n])]

(* ----------------------- update_smirks_parameters ---------------------- *)
\* smirk.update_parameters(off_smirk): the value fields are taken from the
\* record, the atoms set is kept
update_parameters(smirk, off_smirk) == [smirk EXCEPT !.value = off_smirk.value]

\* a loop body that passes over a parameter missing from the handler
UpdateOne_SkipMissing(ff, sofar, n) ==
    LET smirk == sofar.smirks[n]
        at == IndexOf(ff[smirk.type], smirk.smirks)
    IN  IF at = 0 THEN sofar
        ELSE [sofar EXCEPT !.smirks[n] = update_parameters(smirk, ff[smirk.type][at])]

\* the loop body of update_smirks_parameters for the n-th input: the lookup
\* raises when the smirks is not in the handler
UpdateOne(ff, sofar, n) ==
    LET smirk == sofar.smirks[n]
        at == IndexOf(ff[smirk.type], smirk.smirks)
    IN  IF at = 0 THEN [sofar EXCEPT !.raised = "NotFound"]
        ELSE [sofar EXCEPT !.smirks[n] = update_parameters(smirk, ff[smirk.type][at])]

\* the input objects after the loop has handled the first n of them, and the
\* exception the loop ended with ("None" when it ran to the end)
RECURSIVE update_smirks_parameters(_, _, _)
update_smirks_parameters(ff, smirks, n) ==
    IF n = 0 THEN [smirks |-> smirks, raised |-> "None"]
    ELSE LET sofar == update_smirks_parameters(ff, smirks, n - 1)
         IN  IF sofar.raised # "None" THEN sofar ELSE UpdateOne(ff, sofar, n)

(* ------------------------ get_initial_parameters ----------------------- *)
\* the possible outcomes: "AssertionError" when the governing records carry
\* more than one id, else the smirk updated from openff_params[0], which is
\* the record of whichever atom tuple the set iteration yields first
get_initial_parameters(ff, labels, smirk) ==
    LET openff_params == {Governing(ff, labels, smirk.type, atoms) : atoms \in smirk.atoms}
        types == {param.id : param \in openff_params}
    IN  IF Cardinality(types) # 1 THEN {[smirk |-> smirk, raised |-> "AssertionError"]}
        ELSE {[smirk |-> update_parameters(smirk, param), raised |-> "None"] :
                 param \in openff_params}

(* ------------------------------ WorkflowStage -------------------------- *)
CollectionMethod == {"torsiondrive1d", "torsiondrive2d", "optimization", "hessian",
                     "energy", "gradient", "local"}

\* Optional[List[SingleResult]]: None, or a list
NoResult == [some |-> FALSE, list |-> <<>>]
SomeResult(list) == [some |-> TRUE, list |-> list]

\* unit.Quantity(geometry, unit.bohr)
Quantity(geometry, u) == [value |-> geometry, unit |-> u]

\* a get_result_geometries that takes a result of None for an empty one
get_result_geometries_NoneAsEmpty(self) ==
    [geometries |-> [j \in 1..Len(self.result.list) |->
                       Quantity(self.result.list[j].molecule.geometry, "bohr")],
     raised |-> "None"]

\* get_result_geometries: iterating a result of None raises
get_result_geometries(self) ==
    IF ~self.result.some THEN [geometries |-> <<>>, raised |-> "TypeError"]
    ELSE [geometries |-> [j \in 1..Len(self.result.list) |->
                            Quantity(self.result.list[j].molecule.geometry, "bohr")],
          raised |-> "None"]

(* ------------------------------- inputs -------------------------------- *)
SmirksKeys == 1..NumSmirks

\* what add_smirks reads of a parameter besides its value: type and smirks
InputPattern == SmirksType \X SmirksKeys

RECURSIVE SeqsUpTo(_, _)
SeqsUpTo(S, n) ==
    IF n = 0 THEN {<<>>}
    ELSE LET shorter == SeqsUpTo(S, n - 1)
         IN  shorter \cup {Append(q, x) : q \in {r \in shorter : Len(r) = n - 1}, x \in S}

Inputs == SeqsUpTo(InputPattern, MaxLen)

\* The parameters of a call.  add_smirks copies a value and never reads it, so
\* every submitted parameter carries a value of its own: the j-th parameter of
\* the call after n earlier calls has the value n * MaxLen + j, and a loaded
\* record has the value 0.  A field then tells which submission wrote it.
Submitted(patterns, n) ==
    [j \in 1..Len(patterns) |-> Smirk(patterns[j][1], patterns[j][2], n * MaxLen + j, {})]

\* a handler as loaded from the force field file: ids prefix1 .. prefixN
LoadedHandler(t, n) ==
    [j \in 1..n |-> [smirks |-> j, id |-> <<_smirks_ids[t], j>>, value |-> 0,
                     parameterize |-> Absent]]

\* the proposals of a bond fit: bond parameters only
Proposals == {s \in Inputs : \A j \in 1..Len(s) : s[j][1] = "Bonds"}

\* the atom tuples of the molecule: NumTuples tuples of every arity 1..5
TuplesOf(arity) == {[j \in 1..arity |-> k + j - 1] : k \in 0..(NumTuples - 1)}

AtomTuples == UNION {TuplesOf(arity) : arity \in 1..5}

Arity(type) == CHOOSE a \in DOMAIN _atoms_to_params : _atoms_to_params[a] = type

LongestHandler(ff) ==
    CHOOSE n \in {Len(ff[t]) : t \in SmirksType} : \A t \in SmirksType : Len(ff[t]) <= n

\* the labelings of a set of atom tuples by the force field: every tuple is
\* governed by one record of the handler of its type
Labelings(ff, tuples) ==
    {l \in [tuples -> 1..LongestHandler(ff)] :
        \A a \in tuples : /\ Len(a) \in DOMAIN _atoms_to_params
                          /\ l[a] <= Len(ff[_atoms_to_params[Len(a)]])}

Range(q) == {q[j] : j \in 1..Len(q)}

Geometries == {"g1", "g2"}

SingleResult == {[molecule |-> [geometry |-> g]] : g \in Geometries}

Status == {"Prepared", "Collected"}

\* WorkflowStage(method=m): the field defaults of the class
DefaultStage(m) ==
    [method |-> m, result |-> NoResult, status |-> "Prepared", keywords |-> <<>>,
     precedence |-> "serial", retires |-> 0, job_id |-> ""]

Stages ==
    {[DefaultStage(m) EXCEPT !.result = r, !.status = st] :
        m \in CollectionMethod, st \in Status,
        r \in {NoResult} \cup {SomeResult(l) : l \in SeqsUpTo(SingleResult, MaxLen)}}

NoCall == [op |-> "none"]
NoRet == [raised |-> "None"]

(* ---------------------------- specification ---------------------------- *)
InitForceField ==
    /\ \E n \in 0..MaxInit : forcefield = [t \in SmirksType |-> LoadedHandler(t, n)]
    /\ calls = 0
    /\ call = NoCall
    /\ ret = NoRet

Init ==
    /\ InitForceField
    /\ stage = DefaultStage("hessian")

AddSmirksCall(smirks, parameterize) ==
    /\ calls < MaxCalls
    /\ call.op \in {"none", "add_smirks"}
    /\ forcefield' = add_smirks(forcefield, smirks, parameterize)
    /\ calls' = calls + 1
    /\ call' = [op |-> "add_smirks", smirks |-> smirks, parameterize |-> parameterize]
    /\ ret' = NoRet
    /\ UNCHANGED stage

AddSmirks ==
    \E patterns \in Inputs, parameterize \in BOOLEAN :
        AddSmirksCall(Submitted(patterns, calls), parameterize)

Next == AddSmirks

Spec == Init /\ [][Next]_vars

(* The read operations, on the force fields a bond fit produces.  A behaviour *)
(* ends with the read, so that its arguments and result stay in the state.    *)
AddProposals == \E patterns \in Proposals : AddSmirksCall(Submitted(patterns, calls), TRUE)

GetSmirksParameters ==
    /\ call.op \in {"none", "add_smirks"}
    /\ \E atoms \in SeqsUpTo(AtomTuples, MaxLen) :
       \E labels \in Labelings(forcefield, {a \in Range(atoms) : Len(a) <= 4}) :
          /\ call' = [op |-> "get_smirks_parameters", atoms |-> atoms, labels |-> labels]
          /\ ret' = get_smirks_parameters(forcefield, labels, atoms, Len(atoms))
    /\ UNCHANGED <<forcefield, calls, stage>>

UpdateSmirksParameters ==
    /\ call.op \in {"none", "add_smirks"}
    /\ \E smirks \in SeqsUpTo({Smirk(t, s, 0, TuplesOf(1)) : t \in SmirksType, s \in SmirksKeys},
                              MaxLen) :
          /\ call' = [op |-> "update_smirks_parameters", smirks |-> smirks]
          /\ ret' = update_smirks_parameters(forcefield, smirks, Len(smirks))
    /\ UNCHANGED <<forcefield, calls, stage>>

GetInitialParameters ==
    /\ call.op \in {"none", "add_smirks"}
    /\ \E type \in SmirksType, s \in SmirksKeys :
       \E atoms \in SUBSET TuplesOf(Arity(type)) :
       \E labels \in Labelings(forcefield, TuplesOf(Arity(type))) :
       \E out \in get_initial_parameters(forcefield, labels, Smirk(type, s, 0, atoms)) :
          /\ call' = [op |-> "get_initial_parameters", smirk |-> Smirk(type, s, 0, atoms),
                      labels |-> labels]
          /\ ret' = out
    /\ UNCHANGED <<forcefield, calls, stage>>

NextQuery ==
    \/ AddProposals
    \/ GetSmirksParameters
    \/ UpdateSmirksParameters
    \/ GetInitialParameters

SpecQuery == Init /\ [][NextQuery]_vars

(* A workflow stage in any state the execution driver may have left it in. *)
InitStage ==
    /\ forcefield = [t \in SmirksType |-> LoadedHandler(t, 0)]
    /\ calls = 0
    /\ call = NoCall
    /\ ret = NoRet
    /\ stage \in Stages

GetResultGeometries ==
    /\ call.op = "none"
    /\ call' = [op |-> "get_result_geometries"]
    /\ ret' = get_result_geometries(stage)
    /\ UNCHANGED <<forcefield, calls, stage>>

NextStage == GetResultGeometries

SpecStage == InitStage /\ [][NextStage]_vars

(* =============================== claims ================================ *)
IsAdd(c) == c.op = "add_smirks"

Keys(handler) == {handler[j].smirks : j \in 1..Len(handler)}

Ids(handler, from, to) == {handler[j].id : j \in from..to}

\* the smirks of type t in an input list
InputKeys(smirks, t) == {smirks[j].smirks : j \in {h \in 1..Len(smirks) : smirks[h].type = t}}

\* j is the first place of its (type, smirks) in the input list
FirstSeen(smirks, j) == \A h \in 1..(j - 1) : ~SmirkEq(smirks[h], smirks[j])

\* C1: no two records of one handler carry the same id, after any sequence of
\* add_smirks calls on handlers loaded with the ids prefix1 .. prefixN.
C1_UniqueIds ==
    \A t \in SmirksType : \A i, j \in 1..Len(forcefield[t]) :
        i # j => forcefield[t][i].id # forcefield[t][j].id

\* C2: add_smirks is idempotent: repeating the call that has just returned,
\* with the same list and the same parameterize, leaves every handler as it is.
C2_Idempotent ==
    IsAdd(call) => add_smirks(forcefield, call.smirks, call.parameterize) = forcefield

\* an add_smirks call of two parameters of one type, one updating a loaded
\* record and one appended, made without the parameterize flag
C2_Witness ==
    /\ IsAdd(call) /\ ~call.parameterize /\ Len(call.smirks) = 2
    /\ call.smirks[1].type = call.smirks[2].type
    /\ call.smirks[1].smirks = 1 /\ call.smirks[2].smirks = 3
    /\ Len(forcefield[call.smirks[1].type]) = 3
    /\ forcefield[call.smirks[1].type][1].value = call.smirks[1].value

\* C3: a step never changes the id of a record that is already in a handler:
\* every record keeps its place, its smirks and its id.
C3_StableIds ==
    [][\A t \in SmirksType : \A j \in 1..Len(forcefield[t]) :
          /\ j <= Len(forcefield'[t])
          /\ forcefield'[t][j].smirks = forcefield[t][j].smirks
          /\ forcefield'[t][j].id = forcefield[t][j].id]_vars

\* a record appended by the first call has been overwritten by the second
\* call, in a batch that also appended a record
C3_Witness ==
    /\ IsAdd(call) /\ calls = 2
    /\ \E t \in SmirksType :
          /\ Len(forcefield[t]) = 3
          /\ \E j \in 1..Len(call.smirks) :
                /\ call.smirks[j].type = t
                /\ call.smirks[j].smirks = forcefield[t][2].smirks
                /\ call.smirks[j].value = forcefield[t][2].value
          /\ forcefield[t][1].id = <<_smirks_ids[t], 1>>

\* C4: one add_smirks call on a handler of N records, with k distinct smirks
\* of that type absent from the handler in its input, appends exactly k
\* records, and their ids are the prefix followed by N+2 .. N+1+k.
C4_SequentialIds ==
    [][IsAdd(call') /\ calls' = calls + 1 =>
         \A t \in SmirksType :
            LET N == Len(forcefield[t])
                k == Cardinality(InputKeys(call'.smirks, t) \ Keys(forcefield[t]))
            IN  /\ Len(forcefield'[t]) = N + k
                /\ Ids(forcefield'[t], N + 1, N + k)
                     = {<<_smirks_ids[t], N + 1 + m>> : m \in 1..k}]_vars

\* C5: a handler holds at most one record per smirks, and after a call the
\* record of every smirks of the input carries the fields of the first
\* parameter of the input with that type and smirks.
C5_OneRecordPerSmirks ==
    /\ \A t \in SmirksType : \A i, j \in 1..Len(forcefield[t]) :
          i # j => forcefield[t][i].smirks # forcefield[t][j].smirks
    /\ IsAdd(call) =>
          \A j \in 1..Len(call.smirks) :
             FirstSeen(call.smirks, j) =>
                LET handler == forcefield[call.smirks[j].type]
                    written == {h \in 1..Len(handler) : handler[h].smirks = call.smirks[j].smirks}
                IN  /\ Cardinality(written) = 1
                    /\ \A h \in written :
                          /\ handler[h].value = call.smirks[j].value
                          /\ handler[h].parameterize
                               = (IF call.parameterize THEN "value" ELSE Absent)

\* a call whose input holds the same new smirks twice, with different values
C5_Witness ==
    /\ IsAdd(call) /\ Len(call.smirks) = 2
    /\ SmirkEq(call.smirks[1], call.smirks[2])
    /\ call.smirks[1].value # call.smirks[2].value
    /\ call.smirks[1].smirks = NumSmirks
    /\ \E h \in 1..Len(forcefield[call.smirks[1].type]) :
          /\ forcefield[call.smirks[1].type][h].smirks = NumSmirks
          /\ forcefield[call.smirks[1].type][h].value = call.smirks[1].value

\* C10: add_smirks leaves the handler of every type without a parameter in
\* its input as it is; add_smirks([]) leaves the whole force field as it is.
C10_Frame ==
    [][IsAdd(call') /\ calls' = calls + 1 =>
         \A t \in SmirksType :
            InputKeys(call'.smirks, t) = {} => forcefield'[t] = forcefield[t]]_vars

\* add_smirks([]) on a force field that an earlier call has extended
C10_EmptyWitness ==
    /\ IsAdd(call) /\ call.smirks = <<>> /\ calls = 2
    /\ \E t \in SmirksType : Len(forcefield[t]) = MaxInit + 2

\* the (type, smirks) that governs an atom tuple under a labeling
Pattern(ff, labels, atom_ids) ==
    <<_atoms_to_params[Len(atom_ids)],
      ff[_atoms_to_params[Len(atom_ids)]][labels[atom_ids]].smirks>>

PatternOf(smirk) == <<smirk.type, smirk.smirks>>

\* the first place in the requested list of a tuple governed by the pattern
FirstAt(ff, labels, atoms, pattern) ==
    CHOOSE j \in 1..Len(atoms) :
        /\ Pattern(ff, labels, atoms[j]) = pattern
        /\ \A h \in 1..(j - 1) : Pattern(ff, labels, atoms[h]) # pattern

\* C6: get_initial_parameters fails whenever two atom tuples of smirk.atoms
\* are governed by two different records of the handler.
C6_AmbiguityDetected ==
    (/\ call.op = "get_initial_parameters"
     /\ \E a, b \in call.smirk.atoms : call.labels[a] # call.labels[b])
    => ret.raised = "AssertionError"

\* C7: get_smirks_parameters on tuples of arity 1..4 returns one parameter per
\* governing (type, smirks), in first-encounter order, each with exactly the
\* requested tuples that pattern governs, and does not modify the force field.
C7_Clustering ==
    [][(/\ call'.op = "get_smirks_parameters"
        /\ \A a \in Range(call'.atoms) : Len(a) \in 1..4)
       => LET atoms == call'.atoms
              labels == call'.labels
              out == ret'.smirks
          IN  /\ forcefield' = forcefield
              /\ ret'.raised = "None"
              /\ {PatternOf(out[i]) : i \in 1..Len(out)}
                   = {Pattern(forcefield, labels, a) : a \in Range(atoms)}
              /\ \A i, j \in 1..Len(out) :
                    i < j => /\ PatternOf(out[i]) # PatternOf(out[j])
                             /\ FirstAt(forcefield, labels, atoms, PatternOf(out[i]))
                                  < FirstAt(forcefield, labels, atoms, PatternOf(out[j]))
              /\ \A i \in 1..Len(out) :
                    out[i].atoms = {a \in Range(atoms) :
                                       Pattern(forcefield, labels, a) = PatternOf(out[i])}]_vars

\* two distinct atom tuples governed by one record come back as one parameter
\* whose atoms set holds both
C7_Witness ==
    /\ call.op = "get_smirks_parameters"
    /\ Len(call.atoms) = 2 /\ call.atoms[1] # call.atoms[2]
    /\ Len(ret.smirks) = 1
    /\ Cardinality(ret.smirks[1].atoms) = 2
    /\ calls = 2

\* the first input whose (type, smirks) is not in its handler, Len + 1 if none
FirstMissing(ff, smirks) ==
    CHOOSE n \in 1..(Len(smirks) + 1) :
        /\ n <= Len(smirks) => IndexOf(ff[smirks[n].type], smirks[n].smirks) = 0
        /\ \A h \in 1..(n - 1) : IndexOf(ff[smirks[h].type], smirks[h].smirks) # 0

\* C8: update_smirks_parameters overwrites the value of every input up to the
\* first one that is missing from its handler and keeps its atoms; it raises
\* NotFound at that one; it skips none and does not modify the force field.
C8_UpdateOrNotFound ==
    [][call'.op = "update_smirks_parameters"
       => LET input == call'.smirks
              out == ret'.smirks
              n == FirstMissing(forcefield, input)
          IN  /\ forcefield' = forcefield
              /\ Len(out) = Len(input)
              /\ ret'.raised = (IF n <= Len(input) THEN "NotFound" ELSE "None")
              /\ \A j \in 1..Len(input) :
                    /\ out[j].atoms = input[j].atoms
                    /\ PatternOf(out[j]) = PatternOf(input[j])
                    /\ j < n => \E h \in 1..Len(forcefield[input[j].type]) :
                                   /\ forcefield[input[j].type][h].smirks = input[j].smirks
                                   /\ out[j].value = forcefield[input[j].type][h].value
                    /\ j >= n => out[j] = input[j]]_vars

\* a fitted value has been read back into the first input, and the second
\* input is missing from the force field
C8_Witness ==
    /\ call.op = "update_smirks_parameters"
    /\ Len(call.smirks) = 2
    /\ ret.raised = "NotFound"
    /\ ret.smirks[1].value > 0
    /\ call.smirks[1].value = 0

\* C9: get_result_geometries raises on a stage without result; otherwise it
\* returns, in order, the geometry of every result record tagged with the
\* length unit; the stage is left as it is.
C9_ResultGeometries ==
    [][call'.op = "get_result_geometries"
       => /\ stage' = stage
          /\ ~stage.result.some => ret'.raised = "TypeError"
          /\ stage.result.some =>
                /\ ret'.raised = "None"
                /\ Len(ret'.geometries) = Len(stage.result.list)
                /\ \A j \in 1..Len(stage.result.list) :
                      /\ ret'.geometries[j].value = stage.result.list[j].molecule.geometry
                      /\ ret'.geometries[j].unit = "bohr"]_vars

\* the geometries of a stage with two different result records
C9_Witness ==
    /\ call.op = "get_result_geometries"
    /\ stage.result.some /\ Len(stage.result.list) = 2
    /\ ret.raised = "None"
    /\ ret.geometries[1].value = "g2" /\ ret.geometries[2].value = "g1"

\* a stage without result, on which the call has failed
C9_UnsetWitness ==
    /\ call.op = "get_result_geometries"
    /\ ~stage.result.some
    /\ ret.raised = "TypeError"
====
